---- MODULE Spec2Model ----
(***************************************************************************)
(* Model of the bytes codec engine of podite (src/pod/bytes.py and         *)
(* src/pod/types/array.py): the converter catalog's format negotiation,    *)
(* the tag-context slot AutoTagType.TAG_TYPE[0], the dataclass (record)    *)
(* codec and the generated container codecs.                               *)
(*                                                                         *)
(* A call of the catalog is synchronous and recursive, so every top-level  *)
(* call is one action; the recursion is carried by RECURSIVE operators     *)
(* that thread the mutable objects of the call (the BytesIO buffer, the    *)
(* global tag slot and a ghost log of the catalog calls made) through      *)
(* every nested step, in the order the code runs them.                     *)
(***************************************************************************)
EXTENDS Integers, Sequences, FiniteSets, TLC

VARIABLES TAG_TYPE, packed, unpacked, answered, last

vars == <<TAG_TYPE, packed, unpacked, answered, last>>

(***************************************************************************)
(* Bounds of the model.                                                    *)
(***************************************************************************)
\* Largest number of garbage bytes appended to a wire image before decoding.
MaxGarbage == 1
\* Largest number of bytes cut from the end of a wire image before decoding.
MaxCut == 1

(***************************************************************************)
(* Formats (pod._utils, imported at bytes.py:7) and the tag slot's values. *)
(***************************************************************************)
FORMAT_BORSCH == "borsh"
FORMAT_ZERO_COPY == "zero_copy"
FORMAT_AUTO == "auto"
FORMAT_PASS == "pass"
Formats == {FORMAT_BORSCH, FORMAT_ZERO_COPY, FORMAT_AUTO, FORMAT_PASS}

\* AutoTagType.TAG_TYPE = [None]
None == "None"

(***************************************************************************)
(* Atomic integer types (pod/types/atomic.py is not part of src/): fixed   *)
(* width, little endian, static, hooks that accept **kwargs.               *)
(***************************************************************************)
Atomic(name, size) == [kind |-> "atomic", name |-> name, size |-> size]
U8 == Atomic("U8", 1)
U32 == Atomic("U32", 4)
U64 == Atomic("U64", 8)

\* The type a tag slot value names.
TagTypeOf(tag) == IF tag = "U8" THEN U8 ELSE U64

RECURSIVE LEBytes(_, _)
\* int.to_bytes(size, "little")
LEBytes(v, n) == IF n = 0 THEN <<>> ELSE <<v % 256>> \o LEBytes(v \div 256, n - 1)

RECURSIVE LEInt(_)
\* int.from_bytes(bytes, "little")
LEInt(bs) == IF bs = <<>> THEN 0 ELSE Head(bs) + 256 * LEInt(Tail(bs))

\* Whether v fits an unsigned integer of n bytes (model values stay below 2^31).
FitsAtomic(v, n) == v >= 0 /\ (n >= 4 \/ v < 256 ^ n)

(***************************************************************************)
(* Python bytes / BytesIO / str primitives used by the codecs.             *)
(***************************************************************************)
RECURSIVE Zeros(_)
Zeros(n) == IF n <= 0 THEN <<>> ELSE <<0>> \o Zeros(n - 1)

\* bytes.ljust(length, b"\x00"): pads on the right, never truncates.
ljust(bs, length) == bs \o Zeros(length - Len(bs))

\* BytesIO.read(n): up to n bytes from the cursor; the cursor moves by what was read.
ReadLen(raw, pos, n) == IF Len(raw) - pos < n THEN Len(raw) - pos ELSE n
ReadBytes(raw, pos, n) == SubSeq(raw, pos + 1, pos + ReadLen(raw, pos, n))

RECURSIVE EncodeUTF8(_)
\* str.encode("UTF-8") on a string given as its code points (below 2048).
EncodeUTF8(s) ==
  IF s = <<>> THEN <<>>
  ELSE (IF Head(s) < 128 THEN <<Head(s)>>
        ELSE <<192 + (Head(s) \div 64), 128 + (Head(s) % 64)>>) \o EncodeUTF8(Tail(s))

RECURSIVE ValidUTF8(_)
\* Whether bytes.decode("UTF-8") succeeds (one- and two-byte sequences).
ValidUTF8(bs) ==
  IF bs = <<>> THEN TRUE
  ELSE IF Head(bs) < 128 THEN ValidUTF8(Tail(bs))
  ELSE /\ Head(bs) >= 194 /\ Head(bs) < 224
       /\ Len(bs) >= 2
       /\ bs[2] >= 128 /\ bs[2] < 192
       /\ ValidUTF8(Tail(Tail(bs)))

RECURSIVE DecodeUTF8(_)
\* bytes.decode("UTF-8") of valid input, as code points.
DecodeUTF8(bs) ==
  IF bs = <<>> THEN <<>>
  ELSE IF Head(bs) < 128 THEN <<Head(bs)>> \o DecodeUTF8(Tail(bs))
  ELSE <<(Head(bs) - 192) * 64 + (bs[2] - 128)>> \o DecodeUTF8(Tail(Tail(bs)))

RECURSIVE UntilZero(_)
\* FixedLenStr autopad: the bytes before the first zero byte.
UntilZero(bs) ==
  IF bs = <<>> \/ Head(bs) = 0 THEN <<>> ELSE <<Head(bs)>> \o UntilZero(Tail(bs))

(***************************************************************************)
(* Types.  A type is a descriptor record; `kind` names the class that the  *)
(* generator returns and so the four hooks the adapter finds on it.        *)
(***************************************************************************)
\* A max_length / length_type argument that was not given (Python None).
Unspecified == -1
NoType == [kind |-> "none", name |-> "None"]

\* AutoTagType: encodes through whatever type the tag slot names.
AutoTagType == [kind |-> "autotag", name |-> "AutoTagType"]

\* A @pod dataclass: generate_helpers installs the four dataclass_* hooks on it.
Dataclass(name, fields) == [kind |-> "record", name |-> name, fields |-> fields]
Field(name, type) == [name |-> name, type |-> type]

RECURSIVE calc_max_size(_, _)
\* BytesPodConverterCatalog.calc_max_size -> SelfBytesPodConverter.calc_max_size
\* -> the type's _calc_max_size hook, under tag slot value `tag`.
calc_max_size(type_, tag) ==
  CASE type_.kind = "atomic" -> type_.size
    [] type_.kind = "autotag" -> calc_max_size(TagTypeOf(tag), tag)
    [] type_.kind = "record" ->
         LET RECURSIVE total(_)
             total(i) == IF i = 0 THEN 0
                         ELSE total(i - 1) + calc_max_size(type_.fields[i].type, tag)
         IN total(Len(type_.fields))
    [] type_.kind = "farray" -> calc_max_size(type_.elem, tag) * type_.length
    [] type_.kind = "fbytes" -> type_.length
    [] type_.kind = "fstr" -> type_.length
    [] type_.kind = "vec" ->
         calc_max_size(type_.length_type, tag)
           + calc_max_size(type_.elem, tag) * type_.max_length
    [] type_.kind = "vbytes" -> calc_max_size(type_.length_type, tag) + type_.max_length
    [] type_.kind = "vstr" -> calc_max_size(type_.length_type, tag) + type_.max_length

\* The length_type / max_length defaults shared by the three variable generators.
DefaultLengthType(length_type) == IF length_type = NoType THEN U32 ELSE length_type
DefaultMaxLength(max_length, length_type) ==
  IF max_length = Unspecified
  THEN 2 ^ calc_max_size(DefaultLengthType(length_type), None)
  ELSE max_length

_fixed_len_array(type_, length) ==
  [kind |-> "farray", name |-> "FixedLenArray", elem |-> type_, length |-> length]
_fixed_len_bytes(length) ==
  [kind |-> "fbytes", name |-> "FixedLenBytes", length |-> length]
_fixed_len_str(length, autopad) ==
  [kind |-> "fstr", name |-> "FixedLenStr", length |-> length, autopad |-> autopad]
_var_len_array(type_, max_length, length_type) ==
  [kind |-> "vec", name |-> "Vec", elem |-> type_,
   length_type |-> DefaultLengthType(length_type),
   max_length |-> DefaultMaxLength(max_length, length_type),
   default_bound |-> (max_length = Unspecified)]
_var_len_bytes(max_length, length_type) ==
  [kind |-> "vbytes", name |-> "Bytes",
   length_type |-> DefaultLengthType(length_type),
   max_length |-> DefaultMaxLength(max_length, length_type),
   default_bound |-> (max_length = Unspecified)]
_var_len_str(max_length, length_type) ==
  [kind |-> "vstr", name |-> "Str",
   length_type |-> DefaultLengthType(length_type),
   max_length |-> DefaultMaxLength(max_length, length_type),
   default_bound |-> (max_length = Unspecified)]

\* The name under which each generated class defines its static-check hook.
StaticHookName(kind) == IF kind = "vec" THEN "is_static" ELSE "_is_static"

RECURSIVE is_static(_)
\* BytesPodConverterCatalog.is_static -> SelfBytesPodConverter.is_static:
\* getattr(type_, "_is_static")().  [err, val]: err is "AttributeError" when the
\* class has no attribute of that name.
is_static(type_) ==
  CASE StaticHookName(type_.kind) # "_is_static" ->
         [err |-> "AttributeError", val |-> FALSE]
    [] type_.kind = "atomic" -> [err |-> "none", val |-> TRUE]
    [] type_.kind = "autotag" -> [err |-> "none", val |-> FALSE]
    [] type_.kind = "record" ->
         LET RECURSIVE scan(_)
             scan(i) ==
               IF i > Len(type_.fields) THEN [err |-> "none", val |-> TRUE]
               ELSE LET r == is_static(type_.fields[i].type)
                    IN IF r.err # "none" THEN r
                       ELSE IF ~r.val THEN [err |-> "none", val |-> FALSE]
                       ELSE scan(i + 1)
         IN scan(1)
    [] type_.kind = "farray" -> is_static(type_.elem)
    [] type_.kind \in {"fbytes", "fstr"} -> [err |-> "none", val |-> TRUE]
    [] type_.kind \in {"vbytes", "vstr"} -> [err |-> "none", val |-> FALSE]

(***************************************************************************)
(* Call results.  A step returns the threaded call state `st` and either   *)
(* err = "none" or the exception raised: its class, its message, and for a *)
(* PodPathError its path and the class of the exception it was raised      *)
(* from.  `val` is the value an unpack step returns (NoValue otherwise).   *)
(***************************************************************************)
NoValue == <<"NoValue">>
Ok(st, val) ==
  [st |-> st, err |-> "none", msg |-> "", path |-> <<>>, cause |-> "none", val |-> val]
Raise(st, err, msg) ==
  [st |-> st, err |-> err, msg |-> msg, path |-> <<>>, cause |-> "none", val |-> NoValue]
BOUNDS_MSG == "actual_length > max_length"
RESIDUAL_MSG == "Unused bytes in provided raw data"

\* A format argument left to the callee's default.
NoFormat == "absent"
\* pack_partial(..., format=FORMAT_BORSCH, ...)
PackFormat(format) == IF format = NoFormat THEN FORMAT_BORSCH ELSE format
\* unpack_partial(..., format=FORMAT_AUTO, ...)
UnpackFormat(format) == IF format = NoFormat THEN FORMAT_AUTO ELSE format

(***************************************************************************)
(* AutoTagTypeValueManager: __enter__ saves the slot and installs the new  *)
(* tag type; __exit__ runs on every exit of the with block, raised or not. *)
(***************************************************************************)
AutoTagTypeValueManager_enter(tag, tag_type) == [old |-> tag, tag |-> tag_type]

AutoTagTypeValueManager_exit_only_on_success(mgr, tag, raised) ==
  IF raised THEN tag ELSE mgr.old

AutoTagTypeValueManager_exit(mgr, tag, raised) == mgr.old

(***************************************************************************)
(* Hook signatures.  The adapter calls hook(buffer, obj, **kwargs) and     *)
(* hook(buffer, **kwargs); the catalog always passes format=format.        *)
(***************************************************************************)
\* Parameters (after cls) of each class's _to_bytes_partial.
ToBytesSignature(kind) ==
  IF kind \in {"atomic", "autotag", "record"}
  THEN [params |-> <<"buffer", "obj">>, varkw |-> TRUE]
  ELSE [params |-> <<"obj", "buffer">>, varkw |-> FALSE]

\* Parameters (after cls) of each class's _from_bytes_partial.
FromBytesSignature(kind) ==
  IF kind \in {"atomic", "autotag", "record"}
  THEN [params |-> <<"buffer">>, varkw |-> TRUE]
  ELSE [params |-> <<"buffer">>, varkw |-> FALSE]

\* Python's argument binding: a keyword argument needs **kwargs, or a
\* parameter of that name not already bound by position; else TypeError.
BindsKeywords(sig, npositional, kwargs) ==
  \A k \in kwargs :
    \/ sig.varkw
    \/ \E i \in (npositional + 1)..Len(sig.params) : sig.params[i] = k

\* The ghost record of one completed catalog call.
Event(op, type_, format, concrete, probe, stIn, posIn, r) ==
  [op |-> op, type |-> type_.name, kind |-> type_.kind, format |-> format,
   concrete |-> concrete, probe |-> probe, depth |-> stIn.depth,
   tagIn |-> stIn.tag, tagOut |-> r.st.tag, raised |-> (r.err # "none"),
   posIn |-> posIn, posOut |-> IF op = "pack" THEN Len(r.st.buf) ELSE r.st.pos]

\* Leaving a catalog call: one level up, the call logged.
Leave(r, ev) ==
  [r EXCEPT !.st.depth = @ - 1, !.st.log = Append(@, ev)]

\* fields(cls): the dataclass's fields in declaration order.
fields_reversed(cls) ==
  [i \in 1..Len(cls.fields) |-> cls.fields[Len(cls.fields) + 1 - i]]

fields(cls) == cls.fields

\* "except PodPathError as e: e.path.append(field.name); e.path.append(cls.__name__)"
PathAppend_wrap_anew(path, field_name, cls_name) == <<field_name, cls_name>>

PathAppend(path, field_name, cls_name) == path \o <<field_name, cls_name>>

\* The except clauses of the two dataclass codecs around one field's step.
WrapFieldError(r, field_name, cls_name) ==
  IF r.err = "none" THEN r
  ELSE IF r.err = "PodPathError"
  THEN [r EXCEPT !.path = PathAppend(@, field_name, cls_name)]
  ELSE [r EXCEPT !.err = "PodPathError", !.msg = "Failed to (de)serialize dataclass",
                 !.path = <<field_name, cls_name>>, !.cause = r.err]

(***************************************************************************)
(* Format negotiation shared by pack_partial and unpack_partial: the tag   *)
(* type of a format, the state inside the with block, the state after it.  *)
(***************************************************************************)
Negotiated(format) == format \in {FORMAT_BORSCH, FORMAT_ZERO_COPY}
TagTypeFor(format) == IF format = FORMAT_BORSCH THEN "U8" ELSE "U64"

\* Entering a catalog call (ghost: its depth in the call tree).
EnterCall(st) == [st EXCEPT !.depth = @ + 1]

\* "with AutoTagTypeValueManager(tag_type):" for a negotiated format; FORMAT_PASS
\* runs the converter with the slot as it is.
WithTag(st, format) ==
  IF Negotiated(format)
  THEN [st EXCEPT !.tag = AutoTagTypeValueManager_enter(st.tag, TagTypeFor(format)).tag]
  ELSE st

\* The end of the with block that was entered in state stIn, the converter's
\* step having ended as r1.
ExitWith(stIn, format, r1) ==
  IF Negotiated(format)
  THEN [r1 EXCEPT !.st.tag =
          AutoTagTypeValueManager_exit(
            AutoTagTypeValueManager_enter(stIn.tag, TagTypeFor(format)),
            r1.st.tag, r1.err # "none")]
  ELSE r1

FORMAT_ERROR == "Format argument must be auto, borsh, or zero_copy"

(***************************************************************************)
(* Packing.  st = [buf, tag, log, depth].  A step whose result decides how *)
(* the caller goes on is handed to a continuation operator (...Next,       *)
(* ...Leave), which is the code after the call.                            *)
(***************************************************************************)
RECURSIVE pack_partial(_, _, _, _)
RECURSIVE SelfPackPartial(_, _, _, _)
RECURSIVE PackFields(_, _, _, _, _)
RECURSIVE PackFieldsNext(_, _, _, _, _)
RECURSIVE ContainerToBytes(_, _, _)
RECURSIVE VarToBytes(_, _, _)
RECURSIVE PackElems(_, _, _, _)
RECURSIVE PackElemsNext(_, _, _, _)

\* "for elem in obj: BYTES_CATALOG.pack_partial(elem_type, buffer, elem)":
\* no format is passed, an exception ends the loop.
PackElems(elem_type, st, obj, i) ==
  IF i > Len(obj) THEN Ok(st, NoValue)
  ELSE PackElemsNext(elem_type, pack_partial(elem_type, st, obj[i], NoFormat), obj, i)

PackElemsNext(elem_type, r, obj, i) ==
  IF r.err # "none" THEN r ELSE PackElems(elem_type, r.st, obj, i + 1)

\* FixedLenStr._to_bytes_partial after "encoded = obj.encode(encoding)".
FixedStrWrite(type_, st, encoded) ==
  IF Len(encoded) > type_.length THEN Raise(st, "ValueError", "len(value) > length")
  ELSE IF Len(encoded) < type_.length /\ ~type_.autopad
  THEN Raise(st, "ValueError", "len(value) < size")
  ELSE Ok([st EXCEPT !.buf = @ \o ljust(encoded, type_.length)], NoValue)

\* A variable container's _to_bytes_partial after the length was written
\* through length_type (`prefix` is that step's result): the body.
VarToBytes(type_, prefix, obj) ==
  IF prefix.err # "none" THEN prefix
  ELSE CASE type_.kind = "vec" -> PackElems(type_.elem, prefix.st, obj, 1)
         [] type_.kind = "vbytes" -> Ok([prefix.st EXCEPT !.buf = @ \o obj], NoValue)
         [] type_.kind = "vstr" ->
              Ok([prefix.st EXCEPT !.buf = @ \o EncodeUTF8(obj)], NoValue)

\* The body of a container's _to_bytes_partial(cls, obj, buffer), its
\* parameters bound as it names them.  Nested catalog calls pass no format.
ContainerToBytes(type_, st, obj) ==
  CASE type_.kind = "farray" -> PackElems(type_.elem, st, obj, 1)
    [] type_.kind = "fbytes" ->
         Ok([st EXCEPT !.buf = @ \o ljust(obj, type_.length)], NoValue)
    [] type_.kind = "fstr" -> FixedStrWrite(type_, st, EncodeUTF8(obj))
    [] type_.kind \in {"vec", "vbytes", "vstr"} ->
         IF Len(obj) > type_.max_length THEN Raise(st, "RuntimeError", BOUNDS_MSG)
         ELSE VarToBytes(type_, pack_partial(type_.length_type, st, Len(obj), NoFormat),
                         obj)

\* dataclass_to_bytes_partial's loop from field i on: the field's value is
\* packed with the caller's kwargs (format), a failure is wrapped and raised.
PackFields(cls, st, obj, format, i) ==
  IF i > Len(fields(cls)) THEN Ok(st, NoValue)
  ELSE PackFieldsNext(cls,
         WrapFieldError(
           pack_partial(fields(cls)[i].type, st, obj[fields(cls)[i].name], format),
           fields(cls)[i].name, cls.name),
         obj, format, i)

PackFieldsNext(cls, r, obj, format, i) ==
  IF r.err # "none" THEN r ELSE PackFields(cls, r.st, obj, format, i + 1)

\* dataclass_to_bytes_partial(cls, buffer, obj, **kwargs)
dataclass_to_bytes_partial(cls, st, obj, format) == PackFields(cls, st, obj, format, 1)

\* SelfBytesPodConverter.pack_partial: getattr(type_, "_to_bytes_partial")(buffer, obj,
\* format=format), then the hook's body.
SelfPackPartial(type_, st, obj, format) ==
  IF ~BindsKeywords(ToBytesSignature(type_.kind), 2, {"format"})
  THEN Raise(st, "TypeError", "got an unexpected keyword argument 'format'")
  ELSE CASE type_.kind = "atomic" ->
              IF FitsAtomic(obj, type_.size)
              THEN Ok([st EXCEPT !.buf = @ \o LEBytes(obj, type_.size)], NoValue)
              ELSE Raise(st, "OverflowError", "int too big to convert")
         [] type_.kind = "autotag" ->
              IF st.tag = None
              THEN Raise(st, "NoConverterError", "No converter was able to pack raw data")
              ELSE pack_partial(TagTypeOf(st.tag), st, obj, format)
         [] type_.kind = "record" -> dataclass_to_bytes_partial(type_, st, obj, format)
         [] OTHER -> Raise(st, "TypeError", "hook parameters bound in the wrong order")

\* The end of pack_partial: the with block is left, the call is logged.
PackLeave(type_, st, format, r1) ==
  LET r == ExitWith(EnterCall(st), format, r1)
  IN Leave(r, Event("pack", type_, format, format, FALSE, st, Len(st.buf), r))

\* BytesPodConverterCatalog.pack_partial
pack_partial(type_, st, obj, format_arg) ==
  IF Negotiated(PackFormat(format_arg)) \/ PackFormat(format_arg) = FORMAT_PASS
  THEN PackLeave(type_, st, PackFormat(format_arg),
         SelfPackPartial(type_, WithTag(EnterCall(st), PackFormat(format_arg)), obj,
                         PackFormat(format_arg)))
  ELSE PackLeave(type_, st, PackFormat(format_arg),
         Raise(EnterCall(st), "ValueError", FORMAT_ERROR))

(***************************************************************************)
(* Unpacking.  st = [raw, pos, tag, log, depth].                           *)
(***************************************************************************)
\* The Auto probe's comparison, with the buffer's cursor at the end of the data.
ProbeFormat(type_, raw, pos, end) ==
  IF calc_max_size(type_, "U64") = end THEN FORMAT_ZERO_COPY ELSE FORMAT_BORSCH

\* The cursor after the probe: "buffer.seek(pos)".
ProbeSeekBack(pos, end) == pos

\* "pos = buffer.tell(); buffer.seek(0, 2); ...; buffer.seek(pos)" under
\* AutoTagTypeValueManager(U64): the format selected and the state after it.
AutoProbe(type_, st) ==
  [format |-> ProbeFormat(type_, st.raw, st.pos, Len(st.raw)),
   st |-> [st EXCEPT
             !.pos = ProbeSeekBack(st.pos, Len(st.raw)),
             !.tag = AutoTagTypeValueManager_exit(
                       AutoTagTypeValueManager_enter(st.tag, "U64"), "U64", FALSE)]]

RECURSIVE unpack_partial(_, _, _)
RECURSIVE UnpackSelected(_, _, _, _)
RECURSIVE SelfUnpackPartial(_, _, _)
RECURSIVE UnpackFields(_, _, _, _, _)
RECURSIVE UnpackFieldsNext(_, _, _, _, _)
RECURSIVE ContainerFromBytes(_, _)
RECURSIVE VarFromBytes(_, _)
RECURSIVE UnpackElems(_, _, _, _)
RECURSIVE UnpackElemsNext(_, _, _, _)

\* "for _ in range(length): result.append(BYTES_CATALOG.unpack_partial(elem_type,
\* buffer))": no format is passed, an exception ends the loop.
UnpackElems(elem_type, st, n, result) ==
  IF n <= 0 THEN Ok(st, result)
  ELSE UnpackElemsNext(elem_type, unpack_partial(elem_type, st, NoFormat), n, result)

UnpackElemsNext(elem_type, r, n, result) ==
  IF r.err # "none" THEN r ELSE UnpackElems(elem_type, r.st, n - 1, Append(result, r.val))

\* buffer.read(n), as a step.
Read(st, n) ==
  [bytes |-> ReadBytes(st.raw, st.pos, n),
   st |-> [st EXCEPT !.pos = @ + ReadLen(st.raw, st.pos, n)]]

\* "return buffer.read(length)"
ReadRaw(rd) == Ok(rd.st, rd.bytes)

\* "return buffer.read(length).decode(encoding)", after FixedLenStr's autopad cut.
ReadText(rd, autopad) ==
  IF ValidUTF8(IF autopad THEN UntilZero(rd.bytes) ELSE rd.bytes)
  THEN Ok(rd.st, DecodeUTF8(IF autopad THEN UntilZero(rd.bytes) ELSE rd.bytes))
  ELSE Raise(rd.st, "UnicodeDecodeError", "invalid UTF-8")

\* A variable container's _from_bytes_partial after the length was read
\* through length_type (`prefix` is that step's result): the check and the body.
VarFromBytes(type_, prefix) ==
  IF prefix.err # "none" THEN prefix
  ELSE IF prefix.val > type_.max_length THEN Raise(prefix.st, "RuntimeError", BOUNDS_MSG)
  ELSE CASE type_.kind = "vec" -> UnpackElems(type_.elem, prefix.st, prefix.val, <<>>)
         [] type_.kind = "vbytes" -> ReadRaw(Read(prefix.st, prefix.val))
         [] type_.kind = "vstr" -> ReadText(Read(prefix.st, prefix.val), FALSE)

\* The body of a container's _from_bytes_partial(cls, buffer).  Nested catalog
\* calls pass no format.
ContainerFromBytes(type_, st) ==
  CASE type_.kind = "farray" -> UnpackElems(type_.elem, st, type_.length, <<>>)
    [] type_.kind = "fbytes" -> ReadRaw(Read(st, type_.length))
    [] type_.kind = "fstr" -> ReadText(Read(st, type_.length), type_.autopad)
    [] type_.kind \in {"vec", "vbytes", "vstr"} ->
         VarFromBytes(type_, unpack_partial(type_.length_type, st, NoFormat))

\* cls(**values): the record built from the collected values.
Construct(fs, values) ==
  [name \in {fs[i].name : i \in 1..Len(fs)} |->
     values[CHOOSE i \in 1..Len(fs) : fs[i].name = name]]

\* dataclass_from_bytes_partial's loop from field i on, `values` collected so
\* far: the field is unpacked with the caller's kwargs (format), a failure is
\* wrapped and raised, and the record is built after the last field.
UnpackFields(cls, st, format, i, values) ==
  IF i > Len(fields(cls)) THEN Ok(st, Construct(fields(cls), values))
  ELSE UnpackFieldsNext(cls,
         WrapFieldError(unpack_partial(fields(cls)[i].type, st, format),
                        fields(cls)[i].name, cls.name),
         format, i, values)

UnpackFieldsNext(cls, r, format, i, values) ==
  IF r.err # "none" THEN r
  ELSE UnpackFields(cls, r.st, format, i + 1, Append(values, r.val))

\* dataclass_from_bytes_partial(cls, buffer, **kwargs)
dataclass_from_bytes_partial(cls, st, format) == UnpackFields(cls, st, format, 1, <<>>)

\* SelfBytesPodConverter.unpack_partial: getattr(type_, "_from_bytes_partial")(buffer,
\* format=format), then the hook's body.
SelfUnpackPartial(type_, st, format) ==
  IF ~BindsKeywords(FromBytesSignature(type_.kind), 1, {"format"})
  THEN Raise(st, "TypeError", "got an unexpected keyword argument 'format'")
  ELSE CASE type_.kind = "atomic" -> Ok(Read(st, type_.size).st,
                                        LEInt(Read(st, type_.size).bytes))
         [] type_.kind = "autotag" ->
              IF st.tag = None
              THEN Raise(st, "NoConverterError", "No converter was able to unpack object")
              ELSE unpack_partial(TagTypeOf(st.tag), st, format)
         [] type_.kind = "record" -> dataclass_from_bytes_partial(type_, st, format)
         [] OTHER -> ContainerFromBytes(type_, st)

\* The end of unpack_partial: the with block is left, the call is logged.
UnpackLeave(type_, st, requested, format, r1) ==
  LET r == ExitWith(EnterCall(st), format, r1)
  IN Leave(r, Event("unpack", type_, requested, format, requested = FORMAT_AUTO,
                    st, st.pos, r))

\* unpack_partial once the format is concrete (`pr` is the probe's outcome, or
\* the requested format and the state as it was).
UnpackSelected(type_, st, requested, pr) ==
  IF Negotiated(pr.format) \/ pr.format = FORMAT_PASS
  THEN UnpackLeave(type_, st, requested, pr.format,
         SelfUnpackPartial(type_, WithTag(pr.st, pr.format), pr.format))
  ELSE UnpackLeave(type_, st, requested, pr.format,
         Raise(pr.st, "ValueError", FORMAT_ERROR))

\* BytesPodConverterCatalog.unpack_partial
unpack_partial(type_, st, format_arg) ==
  UnpackSelected(type_, st, UnpackFormat(format_arg),
    IF UnpackFormat(format_arg) = FORMAT_AUTO
    THEN AutoProbe(type_, EnterCall(st))
    ELSE [format |-> UnpackFormat(format_arg), st |-> EnterCall(st)])

\* "if checked and buffer.tell() < len(buffer.getvalue())"
UnusedBytes_ignoring_checked(checked, pos, length) == pos < length

UnusedBytes(checked, pos, length) == checked /\ pos < length

(***************************************************************************)
(* The types of the model: records and containers as a program declares    *)
(* them, named by a key.                                                   *)
(***************************************************************************)
P == Dataclass("P", <<Field("a", U8), Field("b", U32)>>)
T == Dataclass("T", <<Field("t", AutoTagType), Field("a", U8)>>)
N == Dataclass("N", <<Field("p", P), Field("t", T)>>)
R == Dataclass("R", <<Field("a", U8), Field("b", _var_len_array(U8, 3, NoType))>>)
S == Dataclass("S", <<Field("a", U8), Field("f", _fixed_len_bytes(2)), Field("c", U32)>>)
O == Dataclass("O", <<Field("x", U8), Field("r", R), Field("y", U32)>>)

RecordKeys == {"P", "T", "N", "R", "S", "O"}
FixedKeys == {"FixedLenArray", "FixedLenBytes", "FixedLenStr", "FixedLenStrExact"}
VarKeys == {"Vec", "VecTag", "Bytes", "Str", "VecDefault", "BytesDefault", "StrDefault",
            "BytesDefaultU8"}
ContainerKeys == FixedKeys \cup VarKeys
TypeKeys == RecordKeys \cup ContainerKeys

Type(key) ==
  CASE key = "P" -> P
    [] key = "T" -> T
    [] key = "N" -> N
    [] key = "R" -> R
    [] key = "S" -> S
    [] key = "O" -> O
    [] key = "FixedLenArray" -> _fixed_len_array(U8, 2)
    [] key = "FixedLenBytes" -> _fixed_len_bytes(2)
    [] key = "FixedLenStr" -> _fixed_len_str(2, TRUE)
    [] key = "FixedLenStrExact" -> _fixed_len_str(2, FALSE)
    [] key = "Vec" -> _var_len_array(U8, 2, NoType)
    [] key = "VecTag" -> _var_len_array(AutoTagType, 4, NoType)
    [] key = "Bytes" -> _var_len_bytes(2, NoType)
    [] key = "Str" -> _var_len_str(2, NoType)
    [] key = "VecDefault" -> _var_len_array(U8, Unspecified, NoType)
    [] key = "BytesDefault" -> _var_len_bytes(Unspecified, NoType)
    [] key = "StrDefault" -> _var_len_str(Unspecified, NoType)
    [] key = "BytesDefaultU8" -> _var_len_bytes(Unspecified, U8)

\* Values within the type's declared bounds (strings are code points: 104 'h',
\* 105 'i', 233 e-acute, which UTF-8 encodes in two bytes).
LegalValues(key) ==
  CASE key = "P" -> {[a |-> 5, b |-> 7], [a |-> 255, b |-> 65539]}
    [] key = "T" -> {[t |-> 3, a |-> 9], [t |-> 0, a |-> 0]}
    [] key = "N" -> {[p |-> [a |-> 5, b |-> 7], t |-> [t |-> 3, a |-> 9]]}
    [] key = "R" -> {[a |-> 5, b |-> <<1, 2, 3>>], [a |-> 5, b |-> <<>>]}
    [] key = "S" -> {[a |-> 5, f |-> <<1, 2>>, c |-> 7]}
    [] key = "O" -> {[x |-> 1, r |-> [a |-> 5, b |-> <<1, 2, 3>>], y |-> 2]}
    [] key = "FixedLenArray" -> {<<1, 2>>}
    [] key = "FixedLenBytes" -> {<<1, 2>>, <<1>>}
    [] key = "FixedLenStr" -> {<<104, 105>>, <<104>>, <<233>>}
    [] key = "FixedLenStrExact" -> {<<104, 105>>, <<233>>}
    [] key = "Vec" -> {<<>>, <<1, 2>>}
    [] key = "VecTag" -> {<<1, 2, 3, 4>>, <<1>>}
    [] key = "Bytes" -> {<<>>, <<1, 2>>}
    [] key = "Str" -> {<<104, 105>>, <<233>>, <<104, 233>>}
    [] key = "VecDefault" -> {<<1, 2, 3>>, Zeros(17)}
    [] key = "BytesDefault" -> {<<1, 2, 3>>, Zeros(17)}
    [] key = "StrDefault" -> {<<104, 105>>, [i \in 1..17 |-> 104]}
    [] key = "BytesDefaultU8" -> {<<1, 2>>, <<1, 2, 3>>}

\* Values outside the declared bounds.
IllegalValues(key) ==
  CASE key = "P" -> {[a |-> 256, b |-> 7]}
    [] key = "R" -> {[a |-> 5, b |-> <<1, 2, 3, 4>>]}
    [] key = "FixedLenBytes" -> {<<1, 2, 3>>}
    [] key = "FixedLenStr" -> {<<104, 105, 104>>}
    [] key = "FixedLenStrExact" -> {<<104>>}
    [] key = "Vec" -> {<<1, 2, 3>>}
    [] key = "Bytes" -> {<<1, 2, 3>>}
    [] key = "Str" -> {<<104, 105, 104>>}
    [] OTHER -> {}

Values(key) == LegalValues(key) \cup IllegalValues(key)

\* Inputs to decode that no pack produced: a length prefix above max_length,
\* and for the records a body that a field's codec would have to decode.
CraftedRaw(key) ==
  CASE key = "Vec" -> {<<3, 0, 0, 0, 1, 2, 3>>}
    [] key = "Bytes" -> {<<3, 0, 0, 0, 1, 2, 3>>}
    [] key = "Str" -> {<<3, 0, 0, 0, 104, 105, 104>>}
    [] key = "R" -> {<<5, 3, 0, 0, 0, 1, 2, 3>>}
    [] key = "S" -> {<<5, 1, 2, 7, 0, 0, 0>>}
    [] key = "O" -> {<<1, 5, 3, 0, 0, 0, 1, 2, 3, 2, 0, 0, 0>>}
    [] key = "FixedLenArray" -> {<<1, 2>>}
    [] OTHER -> {}

(***************************************************************************)
(* State.  TAG_TYPE is AutoTagType.TAG_TYPE[0].  `packed` records the call *)
(* that produced the current wire image, `unpacked` the last decode call;  *)
(* both keep the exception raised, the buffer and the log of catalog calls.*)
(* `answered` records the last is_static query; a pack or unpack call     *)
(* clears it, and a query starts from a catalog with no call recorded.    *)
(***************************************************************************)
NoPack ==
  [via |-> "none", type |-> "none", obj |-> NoValue, format |-> NoFormat,
   err |-> "none", msg |-> "", path |-> <<>>, cause |-> "none",
   wire |-> <<>>, log |-> <<>>]

NoUnpack ==
  [via |-> "none", type |-> "none", input |-> "none", raw |-> <<>>, start |-> 0,
   format |-> NoFormat, checked |-> FALSE,
   err |-> "none", msg |-> "", path |-> <<>>, cause |-> "none",
   val |-> NoValue, pos |-> 0, log |-> <<>>]

\* No is_static query made.
NoAnswer == [type |-> "none", err |-> "none", val |-> FALSE]

Init ==
  /\ TAG_TYPE = None
  /\ packed = NoPack
  /\ unpacked = NoUnpack
  /\ answered = NoAnswer
  /\ last = "init"

PackRecord(via, key, obj, format, r) ==
  [via |-> via, type |-> key, obj |-> obj, format |-> format,
   err |-> r.err, msg |-> r.msg, path |-> r.path, cause |-> r.cause,
   wire |-> r.st.buf, log |-> r.st.log]

UnpackRecord(via, key, input, raw, start, format, checked, r) ==
  [via |-> via, type |-> key, input |-> input, raw |-> raw, start |-> start,
   format |-> format, checked |-> checked,
   err |-> r.err, msg |-> r.msg, path |-> r.path, cause |-> r.cause,
   val |-> r.val, pos |-> r.st.pos, log |-> r.st.log]

\* BytesPodConverterCatalog.pack(type_, obj, format): a fresh BytesIO, one
\* pack_partial, the bytes written.
CatalogPack(type_, tag, obj, format) ==
  pack_partial(type_, [buf |-> <<>>, tag |-> tag, log |-> <<>>, depth |-> 0], obj, format)

\* BytesPodConverterCatalog.unpack(type_, raw, checked, format): a BytesIO over raw,
\* one unpack_partial, then the residual check.
ResidualCheck(checked, r) ==
  IF r.err = "none" /\ UnusedBytes(checked, r.st.pos, Len(r.st.raw))
  THEN Raise(r.st, "RuntimeError", RESIDUAL_MSG)
  ELSE r

CatalogUnpack(type_, tag, raw, checked, format) ==
  ResidualCheck(checked,
    unpack_partial(type_,
      [raw |-> raw, pos |-> 0, tag |-> tag, log |-> <<>>, depth |-> 0], format))

\* The inputs derived from a wire image: as packed, with trailing garbage, cut short.
WireInputs(wire) ==
  {[input |-> "wire", raw |-> wire]}
    \cup {[input |-> "garbage", raw |-> wire \o [i \in 1..g |-> 7]] : g \in 1..MaxGarbage}
    \cup {[input |-> "cut", raw |-> SubSeq(wire, 1, Len(wire) - c)] :
            c \in {d \in 1..MaxCut : d <= Len(wire)}}

\* BYTES_CATALOG.pack(type_, obj, format=...)
Pack ==
  \E key \in TypeKeys : \E obj \in Values(key) : \E format \in Formats :
    LET r == CatalogPack(Type(key), TAG_TYPE, obj, format)
    IN /\ TAG_TYPE' = r.st.tag
       /\ packed' = PackRecord("catalog", key, obj, format, r)
       /\ unpacked' = NoUnpack
       /\ last' = "pack"
       /\ answered' = NoAnswer

\* A direct call of a container class's own _to_bytes_partial(obj, buffer) on a
\* fresh buffer, the arguments in the order the hook declares them.
HookPack ==
  \E key \in ContainerKeys : \E obj \in Values(key) :
    LET r == ContainerToBytes(Type(key),
               [buf |-> <<>>, tag |-> TAG_TYPE, log |-> <<>>, depth |-> 1], obj)
    IN /\ TAG_TYPE' = r.st.tag
       /\ packed' = PackRecord("hook", key, obj, NoFormat, r)
       /\ unpacked' = NoUnpack
       /\ last' = "hook_pack"
       /\ answered' = NoAnswer

\* BYTES_CATALOG.unpack(type_, raw, checked=..., format=...) of the current wire image.
Unpack ==
  /\ packed.via # "none" /\ packed.err = "none"
  /\ \E in \in WireInputs(packed.wire) : \E format \in Formats : \E checked \in BOOLEAN :
       LET r == CatalogUnpack(Type(packed.type), TAG_TYPE, in.raw, checked, format)
       IN /\ TAG_TYPE' = r.st.tag
          /\ unpacked' = UnpackRecord("catalog", packed.type, in.input, in.raw, 0,
                                      format, checked, r)
          /\ UNCHANGED packed
          /\ last' = "unpack"
          /\ answered' = NoAnswer

\* BYTES_CATALOG.unpack of bytes that no pack of the model produced.
UnpackCrafted ==
  \E key \in TypeKeys : \E raw \in CraftedRaw(key) :
  \E format \in Formats : \E checked \in BOOLEAN :
    LET r == CatalogUnpack(Type(key), TAG_TYPE, raw, checked, format)
    IN /\ TAG_TYPE' = r.st.tag
       /\ unpacked' = UnpackRecord("catalog", key, "crafted", raw, 0, format, checked, r)
       /\ packed' = NoPack
       /\ last' = "unpack_crafted"
       /\ answered' = NoAnswer

\* BYTES_CATALOG.unpack_partial(type_, buffer, format=...) by an embedding caller
\* whose buffer holds one byte before the value, the cursor after that byte.
UnpackPartialAt ==
  /\ packed.via # "none" /\ packed.err = "none"
  /\ \E format \in Formats :
       LET r == unpack_partial(Type(packed.type),
                  [raw |-> <<7>> \o packed.wire, pos |-> 1, tag |-> TAG_TYPE,
                   log |-> <<>>, depth |-> 0],
                  format)
       IN /\ TAG_TYPE' = r.st.tag
          /\ unpacked' = UnpackRecord("partial", packed.type, "wire",
                                      <<7>> \o packed.wire, 1, format, FALSE, r)
          /\ UNCHANGED packed
          /\ last' = "unpack_partial"
          /\ answered' = NoAnswer

\* A direct call of a container class's own _from_bytes_partial(buffer) on the
\* current wire image.
HookUnpack ==
  /\ packed.via # "none" /\ packed.err = "none" /\ packed.type \in ContainerKeys
  /\ \E in \in WireInputs(packed.wire) :
       LET r == ContainerFromBytes(Type(packed.type),
                  [raw |-> in.raw, pos |-> 0, tag |-> TAG_TYPE, log |-> <<>>, depth |-> 1])
       IN /\ TAG_TYPE' = r.st.tag
          /\ unpacked' = UnpackRecord("hook", packed.type, in.input, in.raw, 0,
                                      NoFormat, FALSE, r)
          /\ UNCHANGED packed
          /\ last' = "hook_unpack"
          /\ answered' = NoAnswer

\* The same direct call on bytes that no pack of the model produced.
HookUnpackCrafted ==
  \E key \in ContainerKeys : \E raw \in CraftedRaw(key) :
    LET r == ContainerFromBytes(Type(key),
               [raw |-> raw, pos |-> 0, tag |-> TAG_TYPE, log |-> <<>>, depth |-> 1])
    IN /\ TAG_TYPE' = r.st.tag
       /\ unpacked' = UnpackRecord("hook", key, "crafted", raw, 0, NoFormat, FALSE, r)
       /\ packed' = NoPack
       /\ last' = "hook_unpack_crafted"
       /\ answered' = NoAnswer

\* BYTES_CATALOG.is_static(type_): the answer or the exception raised.  The tag
\* slot is not touched.
IsStatic ==
  \E key \in TypeKeys :
    LET r == is_static(Type(key))
    IN /\ answered' = [type |-> key, err |-> r.err, val |-> r.val]
       /\ packed' = NoPack
       /\ unpacked' = NoUnpack
       /\ last' = "is_static"
       /\ UNCHANGED TAG_TYPE

Next ==
  \/ Pack
  \/ HookPack
  \/ Unpack
  \/ UnpackCrafted
  \/ UnpackPartialAt
  \/ HookUnpack
  \/ HookUnpackCrafted
  \/ IsStatic

Spec == Init /\ [][Next]_vars

(***************************************************************************)
(* Reading the log of a completed call.                                    *)
(***************************************************************************)
\* The catalog calls made directly by the outermost call's codec.
Kids(log) == SelectSeq(log, LAMBDA e : e.depth = 1)
\* The outermost catalog call (logged last, as it returns last).
Top(log) == log[Len(log)]
Raised(log) == \E i \in DOMAIN log : log[i].raised
TagsRestored(log) == \A i \in DOMAIN log : log[i].tagIn = log[i].tagOut
IsResidual(u) == u.err = "RuntimeError" /\ u.msg = RESIDUAL_MSG
IsBoundsError(c) == c.err = "RuntimeError" /\ c.msg = BOUNDS_MSG
CatalogPacked == packed.via = "catalog"
CatalogUnpacked == unpacked.via \in {"catalog", "partial"}
PackedRecord == CatalogPacked /\ packed.type \in RecordKeys
UnpackedRecord == CatalogUnpacked /\ unpacked.type \in RecordKeys

(***************************************************************************)
(* C1.  Every catalog pack_partial / unpack_partial call, nested or        *)
(* outermost, returning or raising, leaves AutoTagType.TAG_TYPE[0] as it   *)
(* found it; after any sequence of completed top-level calls the slot      *)
(* holds its initial value None.                                           *)
(***************************************************************************)
TagSlotRestored ==
  /\ TAG_TYPE = None
  /\ TagsRestored(packed.log)
  /\ TagsRestored(unpacked.log)

\* A nested call under a negotiated format raised, and the call tree completed.
TagSlotRestoredWitness ==
  /\ TAG_TYPE = None
  /\ \E i \in DOMAIN unpacked.log :
       /\ unpacked.log[i].raised
       /\ unpacked.log[i].depth > 0
       /\ unpacked.log[i].tagIn = "U64"
       /\ unpacked.log[i].concrete = FORMAT_ZERO_COPY
  /\ Top(unpacked.log).probe

(***************************************************************************)
(* C6.  Catalog.unpack raises the residual-data error exactly when it was  *)
(* called with checked=true, the decode succeeded and the cursor is before *)
(* the end of raw; otherwise the decode's own outcome is the call's: the   *)
(* value when it succeeded, its exception when it raised.                  *)
(***************************************************************************)
CheckedConsumption ==
  unpacked.via = "catalog" =>
    /\ IsResidual(unpacked) <=>
         /\ unpacked.checked
         /\ ~Top(unpacked.log).raised
         /\ unpacked.pos < Len(unpacked.raw)
    /\ ~IsResidual(unpacked) => (unpacked.err = "none" <=> ~Top(unpacked.log).raised)
    /\ unpacked.err = "none" => unpacked.val # NoValue

\* A checked unpack of a wire image with trailing garbage raised the residual error.
CheckedConsumptionWitness ==
  /\ unpacked.via = "catalog"
  /\ unpacked.input = "garbage"
  /\ unpacked.checked
  /\ IsResidual(unpacked)
  /\ unpacked.pos = Len(packed.wire)

(***************************************************************************)
(* C7.  The record codec handles the fields in declared order: the catalog *)
(* calls it makes are for the 1st, 2nd, ... field's type, each starting    *)
(* where the previous one ended; only the last call made can have raised,  *)
(* and then no later field is handled and no record is built.  A pack that *)
(* succeeds wrote exactly the concatenation of the fields' own encodings;  *)
(* an unpack that succeeds decoded every field.                            *)
(***************************************************************************)
FieldCallsInOrder(cls, log, start) ==
  LET kids == Kids(log)
  IN /\ Len(kids) <= Len(cls.fields)
     /\ \A i \in DOMAIN kids :
          /\ kids[i].type = cls.fields[i].type.name
          /\ kids[i].posIn = IF i = 1 THEN start ELSE kids[i - 1].posOut
          /\ kids[i].raised => i = Len(kids)
     /\ Top(log).raised <=> (kids = <<>> \/ kids[Len(kids)].raised)
     /\ ~Top(log).raised => Len(kids) = Len(cls.fields)

RecordFieldOrder ==
  /\ PackedRecord =>
       /\ FieldCallsInOrder(Type(packed.type), packed.log, 0)
       /\ packed.err = "none" =>
            LET kids == Kids(packed.log)
                cls == Type(packed.type)
            IN /\ Len(packed.wire) = kids[Len(kids)].posOut
               /\ \A i \in DOMAIN kids :
                    SubSeq(packed.wire, kids[i].posIn + 1, kids[i].posOut)
                      = CatalogPack(cls.fields[i].type, None,
                                    packed.obj[cls.fields[i].name], packed.format).st.buf
  /\ UnpackedRecord =>
       /\ FieldCallsInOrder(Type(unpacked.type), unpacked.log, unpacked.start)
       /\ Top(unpacked.log).raised => unpacked.val = NoValue
       /\ unpacked.err = "none" =>
            DOMAIN unpacked.val = {f.name : f \in {Type(unpacked.type).fields[i] :
                                     i \in DOMAIN Type(unpacked.type).fields}}

\* Unpacking the three-field record O failed at its second field: the third
\* was not decoded and no record was built.
RecordFieldOrderWitness ==
  /\ unpacked.via = "catalog"
  /\ unpacked.type = "O"
  /\ unpacked.err = "PodPathError"
  /\ Len(Kids(unpacked.log)) = 2
  /\ unpacked.val = NoValue

(***************************************************************************)
(* C8.  A failure inside a field of a record is never swallowed: the call  *)
(* raises a PodPathError whose path lists, from the failing field outward  *)
(* to the root, each enclosing record's (field name, record name) pair,    *)
(* once; the innermost pair names the field whose codec raised and the     *)
(* original exception (not a PodPathError) is the cause.                   *)
(***************************************************************************)
RECURSIVE PathChain(_, _)
\* path, read from its end, walks from cls down to a field that is no record.
PathChain(path, cls) ==
  /\ Len(path) >= 2
  /\ path[Len(path)] = cls.name
  /\ \E i \in DOMAIN cls.fields :
       /\ cls.fields[i].name = path[Len(path) - 1]
       /\ IF Len(path) = 2 THEN cls.fields[i].type.kind # "record"
          ELSE /\ cls.fields[i].type.kind = "record"
               /\ PathChain(SubSeq(path, 1, Len(path) - 2), cls.fields[i].type)

FieldFailureReported(c, cls) ==
  LET kids == Kids(c.log)
  IN /\ Raised(c.log) => c.err # "none"
     /\ (kids # <<>> /\ kids[Len(kids)].raised) =>
          /\ c.err = "PodPathError"
          /\ c.cause \notin {"none", "PodPathError"}
          /\ PathChain(c.path, cls)
          /\ c.path[Len(c.path) - 1] = cls.fields[Len(kids)].name

PathErrorPropagation ==
  /\ PackedRecord => FieldFailureReported(packed, Type(packed.type))
  /\ UnpackedRecord => FieldFailureReported(unpacked, Type(unpacked.type))

\* A failure two records deep was reported with both levels in the path.
PathErrorPropagationWitness ==
  /\ PackedRecord
  /\ packed.type = "O"
  /\ packed.path = <<"b", "R", "r", "O">>
  /\ packed.cause = "TypeError"

(***************************************************************************)
(* C2.  Round trip: packing a value within its type's declared bounds      *)
(* under Canonical or ZeroCopy succeeds, and unpacking the bytes written   *)
(* under the same format returns the value.                                *)
(***************************************************************************)
LegalPack ==
  /\ CatalogPacked
  /\ Negotiated(packed.format)
  /\ packed.obj \in LegalValues(packed.type)

RoundTrip ==
  /\ LegalPack => packed.err = "none"
  /\ (LegalPack /\ unpacked.via = "catalog" /\ unpacked.input = "wire"
        /\ unpacked.format = packed.format) =>
       /\ unpacked.err = "none"
       /\ unpacked.val = packed.obj

(***************************************************************************)
(* C3.  With format Auto the negotiator selects ZeroCopy exactly when the  *)
(* remaining buffer length equals the type's max size under the 8-byte tag *)
(* and Canonical otherwise, and decodes from the cursor where it started;  *)
(* so a statically-sized record packed under either format unpacks under   *)
(* Auto to the value packed.                                               *)
(***************************************************************************)
StaticType(type_) == is_static(type_).err = "none" /\ is_static(type_).val

AutoDetection ==
  /\ (CatalogUnpacked /\ unpacked.format = FORMAT_AUTO) =>
       /\ Top(unpacked.log).concrete =
            IF calc_max_size(Type(unpacked.type), "U64")
                 = Len(unpacked.raw) - unpacked.start
            THEN FORMAT_ZERO_COPY ELSE FORMAT_BORSCH
       /\ Top(unpacked.log).posIn = unpacked.start
  /\ (LegalPack /\ packed.type \in RecordKeys /\ StaticType(Type(packed.type))) =>
       /\ packed.err = "none"
       /\ (unpacked.via = "catalog" /\ unpacked.input = "wire"
             /\ unpacked.format = FORMAT_AUTO) =>
            /\ unpacked.err = "none"
            /\ unpacked.val = packed.obj

(***************************************************************************)
(* C4.  Static-size exactness: packing a legal value of a type whose       *)
(* is_static is true writes exactly calc_max_size bytes.                   *)
(***************************************************************************)
StaticSizeExact ==
  (LegalPack /\ StaticType(Type(packed.type))) =>
    /\ packed.err = "none"
    /\ Len(packed.wire) = calc_max_size(Type(packed.type), "U8")

(***************************************************************************)
(* C5.  Bounds rejection: packing a variable container longer than its     *)
(* max_length raises the bounds error with nothing written, and unpacking  *)
(* input whose length prefix exceeds max_length raises the same error with *)
(* nothing read beyond the prefix.                                         *)
(***************************************************************************)
BoundedKeys == {"Vec", "Bytes", "Str"}

BoundsRejection ==
  /\ (CatalogPacked /\ packed.type \in BoundedKeys
        /\ Len(packed.obj) > Type(packed.type).max_length) =>
       /\ IsBoundsError(packed)
       /\ packed.wire = <<>>
  /\ (unpacked.via = "catalog" /\ unpacked.type \in BoundedKeys
        /\ unpacked.input = "crafted") =>
       /\ IsBoundsError(unpacked)
       /\ unpacked.pos = Type(unpacked.type).length_type.size

(***************************************************************************)
(* C9.  Auto detection runs only at the outermost decode call: in a        *)
(* completed decode call tree no catalog call below the outermost one ran  *)
(* the length probe, and every nested call ran under the format selected   *)
(* at the top; every nested step of a ZeroCopy pack ran as ZeroCopy.       *)
(***************************************************************************)
AutoOnlyOutermost ==
  /\ \A i \in DOMAIN unpacked.log :
       /\ unpacked.log[i].probe => unpacked.log[i].depth = 0
       /\ CatalogUnpacked => unpacked.log[i].concrete = Top(unpacked.log).concrete
  /\ (CatalogPacked /\ packed.format = FORMAT_ZERO_COPY) =>
       \A i \in DOMAIN packed.log : packed.log[i].concrete = FORMAT_ZERO_COPY

(***************************************************************************)
(* C10.  A variable container built without max_length has max_length =    *)
(* 2^(bit width of its length type), so no length that the length type can *)
(* represent is rejected as out of bounds.                                 *)
(***************************************************************************)
\* m = 2^(8 * size), computed without leaving 32-bit integers.
IsTwoToTheBits(m, size) ==
  /\ m % (2 ^ (4 * size)) = 0
  /\ m \div (2 ^ (4 * size)) = 2 ^ (4 * size)

DefaultBound ==
  (packed.via # "none" /\ packed.type \in VarKeys /\ Type(packed.type).default_bound) =>
    /\ IsTwoToTheBits(Type(packed.type).max_length, Type(packed.type).length_type.size)
    /\ ~IsBoundsError(packed)

(***************************************************************************)
(* C11.  Queried through the catalog, every variable container (Vec,       *)
(* Bytes, Str, whatever its element type, length type and max_length)      *)
(* answers is_static = false without raising, and so does every record     *)
(* that has such a container among its fields, directly or nested.         *)
(***************************************************************************)
RECURSIVE HasVariableField(_)
HasVariableField(cls) ==
  \E i \in DOMAIN cls.fields :
    \/ cls.fields[i].type.kind \in {"vec", "vbytes", "vstr"}
    \/ /\ cls.fields[i].type.kind = "record"
       /\ HasVariableField(cls.fields[i].type)

VariableContainersNotStatic ==
  /\ answered.type \in VarKeys =>
       /\ answered.err = "none"
       /\ answered.val = FALSE
  /\ (answered.type \in RecordKeys /\ HasVariableField(Type(answered.type))) =>
       /\ answered.err = "none"
       /\ answered.val = FALSE

====
